---- MODULE Spec2Model ----
(***************************************************************************)
(* Keyword-routed spreadsheet agent: the ship-management model             *)
(* (ship_management_model.py), the sales-forecast model                    *)
(* (sales_forecast_model.py) and the dispatcher (agent.py).                *)
(*                                                                         *)
(* A workbook is the content of the cells the code touches.  Every model   *)
(* operation opens the workbook file, edits the opened copy, saves it or   *)
(* not, and closes it.  In Spec, SpecForecast, SpecAgent and SpecModels one *)
(* action is one whole call; in SpecSteps a call is its statements one by  *)
(* one, and two callers may be inside a method at the same time.           *)
(*                                                                         *)
(* Encoding.  A Python value that may be None is an option: None is <<>>   *)
(* and a value x is <<x>>.  Text is a tuple of one-character strings, so   *)
(* the empty string '' is <<>> and a cell holding '' is << <<>> >>.        *)
(***************************************************************************)
EXTENDS Integers, Sequences, FiniteSets, TLC

VARIABLES shipFile, forecastFile, tools, call, invoked, result, effect, saves,
          running, books, started

vars == <<shipFile, forecastFile, tools, call, invoked, result, effect, saves,
          running, books, started>>

(***************************************************************************)
(* Bounds of the model.                                                    *)
(***************************************************************************)
\* Number of workbook saves a behaviour may perform.
MaxSaves == 1
\* Number of rows a behaviour may append to the 'Forecast input' sheet.
MaxAppends == 2
\* Row that stands for the last row of a worksheet (1048576 in Excel).
LastSheetRow == 11
\* Number of model method calls a behaviour of SpecSteps may start.
MaxCalls == 2

(***************************************************************************)
(* Python values.                                                          *)
(***************************************************************************)
None == <<>>
Some(x) == <<x>>
Val(o) == o[1]

\* Truth value of a cell read as None or as a str (`if current_value`).
Truthy(v) == v # None /\ v # Some(<<>>)

Lowers == <<"a","b","c","d","e","f","g","h","i","j","k","l","m",
            "n","o","p","q","r","s","t","u","v","w","x","y","z">>
Uppers == <<"A","B","C","D","E","F","G","H","I","J","K","L","M",
            "N","O","P","Q","R","S","T","U","V","W","X","Y","Z">>
Whitespace == {" ", "\t", "\n"}

Letters == {Lowers[i] : i \in 1..26} \cup {Uppers[i] : i \in 1..26}

\* The upper-case and lower-case form of each letter.
UpperOf ==
    [c \in Letters |->
        IF \E i \in 1..26 : Lowers[i] = c
        THEN Uppers[CHOOSE i \in 1..26 : Lowers[i] = c] ELSE c]
LowerOf ==
    [c \in Letters |->
        IF \E i \in 1..26 : Uppers[i] = c
        THEN Lowers[CHOOSE i \in 1..26 : Uppers[i] = c] ELSE c]

UpperCh(c) == IF c \in Letters THEN UpperOf[c] ELSE c
LowerCh(c) == IF c \in Letters THEN LowerOf[c] ELSE c

\* str.upper() and str.lower()
Upper(s) == [i \in 1..Len(s) |-> UpperCh(s[i])]
Lower(s) == [i \in 1..Len(s) |-> LowerCh(s[i])]

\* str.strip(): drop leading, then trailing, whitespace
RECURSIVE LStrip(_)
LStrip(s) ==
    IF s # <<>> /\ Head(s) \in Whitespace THEN LStrip(Tail(s)) ELSE s
RECURSIVE RStrip(_)
RStrip(s) ==
    IF s # <<>> /\ s[Len(s)] \in Whitespace
    THEN RStrip(SubSeq(s, 1, Len(s) - 1)) ELSE s
Strip(s) == RStrip(LStrip(s))

\* `sub in s` for two str
Contains(sub, s) ==
    \E i \in 1..(Len(s) - Len(sub) + 1) :
        \A j \in 1..Len(sub) : s[i + j - 1] = sub[j]

(***************************************************************************)
(* Text used as ship type names.                                           *)
(***************************************************************************)
EmptyStr == <<>>
Blank == <<" ">>
VLCC == <<"V", "L", "C", "C">>
VlccPadded == <<" ", "v", "l", "c", "c", " ">>
ContainerShips == <<"C", "o", "n", "t", "a", "i", "n", "e", "r", " ", "S", "h", "i", "p", "s">>
ContainerShipsPadded == <<" ", "c", "o", "n", "t", "a", "i", "n", "e", "r", " ", "s", "h", "i", "p", "s", " ">>
BulkCarrier == <<"B", "u", "l", "k", " ", "C", "a", "r", "r", "i", "e", "r">>
Yes == <<"Y", "e", "s">>

(***************************************************************************)
(* Results and effects of one call.                                        *)
(***************************************************************************)
\* A return value (kind "dict", "list", "str", "int", "table") or a raised
\* exception (kind "raise", exc its type).  Unused fields stay None.
NoResult ==
    [kind |-> "none", success |-> None, slot |-> None, row |-> None,
     revenue |-> None, include_tax |-> None, ship_type |-> None,
     label |-> None, items |-> <<>>, columns |-> <<>>, records |-> <<>>,
     text |-> "", exc |-> ""]

Raise(e) == [NoResult EXCEPT !.kind = "raise", !.exc = e]
Str(t) == [NoResult EXCEPT !.kind = "str", !.text = t]

\* What a call did: the opened workbook as it is when the call closes it, the
\* value returned or raised, whether wb.save() ran, and the cells assigned.
Outcome(wb, r, s, w) == [wb |-> wb, result |-> r, saved |-> s, writes |-> w]

\* The file after a call on file f: wb.save() overwrites it with the opened
\* workbook, wb.close() alone leaves it as it was.
FileAfter(f, out) == IF out.saved THEN out.wb ELSE f

(***************************************************************************)
(* ShipManagementModel                                                     *)
(***************************************************************************)
ship_type_start_row == 32
SlotCount == 10
revenue_excl_row == 44
revenue_incl_row == 61

Slots == 1..SlotCount
SetupRows == ship_type_start_row..(ship_type_start_row + SlotCount - 1)
CalcRows == (revenue_excl_row..(revenue_excl_row + SlotCount - 1))
            \cup (revenue_incl_row..(revenue_incl_row + SlotCount - 1))

\* chr(ord(col) + k) on a column letter
ColShift(col, k) == Uppers[(CHOOSE i \in 1..26 : Uppers[i] = col) + k]

ship_type_column == "M"
yes_column == ColShift(ship_type_column, 3)

\* Mutant of IsEmptyCell: only `current_value is None`.
IsNoneCell(v) == v = None

\* `current_value is None or current_value == ''`
IsEmptyCell(v) == v = None \/ v = Some(EmptyStr)

\* Mutant of FirstEmptySlotFrom: the loop has no `break` and ends on the last
\* row whose name cell is empty.
RECURSIVE LastEmptySlotFrom(_, _)
LastEmptySlotFrom(setupM, i) ==
    IF i >= SlotCount THEN None
    ELSE LET later == LastEmptySlotFrom(setupM, i + 1)
         IN  IF later # None THEN later
             ELSE IF IsEmptyCell(setupM[ship_type_start_row + i])
             THEN Some(i + 1)
             ELSE None

\* The scan `for i in range(10)` of add_ship_type, from index i on: the first
\* row whose name cell is empty, as Some(i + 1), or None.
RECURSIVE FirstEmptySlotFrom(_, _)
FirstEmptySlotFrom(setupM, i) ==
    IF i >= SlotCount THEN None
    ELSE IF IsEmptyCell(setupM[ship_type_start_row + i]) THEN Some(i + 1)
    ELSE FirstEmptySlotFrom(setupM, i + 1)

\* `range(...).value = v`: Excel keeps an assigned '' as an empty cell, which
\* reads back as None; any other text is kept as written.
StoreText(v) == IF v = EmptyStr THEN None ELSE Some(v)

\* Mutant of WriteShipType: 'Yes' goes to column P of the last slot's row,
\* whatever the target row is.
WriteShipTypeFlagLastRow(f, ship_type_name, slot_num) ==
    LET target_row == ship_type_start_row + slot_num - 1
        wb == [f EXCEPT !.setupM[target_row] = StoreText(ship_type_name),
                        !.setupP[ship_type_start_row + SlotCount - 1] =
                            Some(Yes)]
    IN  Outcome(wb,
                [NoResult EXCEPT !.kind = "dict", !.success = Some(TRUE),
                                 !.slot = Some(slot_num),
                                 !.row = Some(target_row),
                                 !.text = "Successfully added ship type"],
                TRUE,
                {<<"i_Setup", ship_type_column, target_row>>,
                 <<"i_Setup", yes_column,
                   ship_type_start_row + SlotCount - 1>>})

\* Lines 131-147: write the name and 'Yes', save, report the slot.
WriteShipType(f, ship_type_name, slot_num) ==
    LET target_row == ship_type_start_row + slot_num - 1
        wb == [f EXCEPT !.setupM[target_row] = StoreText(ship_type_name),
                        !.setupP[target_row] = Some(Yes)]
    IN  Outcome(wb,
                [NoResult EXCEPT !.kind = "dict", !.success = Some(TRUE),
                                 !.slot = Some(slot_num),
                                 !.row = Some(target_row),
                                 !.text = "Successfully added ship type"],
                TRUE,
                {<<"i_Setup", ship_type_column, target_row>>,
                 <<"i_Setup", yes_column, target_row>>})

AllSlotsFilled ==
    [NoResult EXCEPT !.kind = "dict", !.success = Some(FALSE),
       !.text = "All ship type slots (ST1-ST10) are already filled"]

\* Mutant of AddShipType: the slot argument is taken as given, with no check
\* of its range.
AddShipTypeUnchecked(f, ship_type_name, ship_type_slot) ==
    IF ship_type_slot # None
    THEN WriteShipType(f, ship_type_name, Val(ship_type_slot))
    ELSE LET slot_num == FirstEmptySlotFrom(f.setupM, 0)
         IN  IF slot_num = None
             THEN Outcome(f, AllSlotsFilled, FALSE, {})
             ELSE WriteShipType(f, ship_type_name, Val(slot_num))

\* add_ship_type(ship_type_name, ship_type_slot=None)
AddShipType(f, ship_type_name, ship_type_slot) ==
    IF ship_type_slot # None
    THEN IF Val(ship_type_slot) < 1 \/ Val(ship_type_slot) > SlotCount
         THEN Outcome(f, Raise("ValueError"), FALSE, {})
         ELSE WriteShipType(f, ship_type_name, Val(ship_type_slot))
    ELSE LET slot_num == FirstEmptySlotFrom(f.setupM, 0)
         IN  IF slot_num = None
             THEN Outcome(f, AllSlotsFilled, FALSE, {})
             ELSE WriteShipType(f, ship_type_name, Val(slot_num))

\* Mutant of NameMatches: the two names compared as they are.
NameMatchesExactly(current_value, ship_type_name) ==
    /\ Truthy(current_value)
    /\ Val(current_value) = ship_type_name

\* `current_value and current_value.strip().upper() ==
\*  ship_type_name.strip().upper()`
NameMatches(current_value, ship_type_name) ==
    /\ Truthy(current_value)
    /\ Upper(Strip(Val(current_value))) = Upper(Strip(ship_type_name))

\* The scan `for i in range(10)` of read_total_revenue, from index i on.
RECURSIVE FindSlotFrom(_, _, _)
FindSlotFrom(setupM, ship_type_name, i) ==
    IF i >= SlotCount THEN None
    ELSE IF NameMatches(setupM[ship_type_start_row + i], ship_type_name)
    THEN Some(i + 1)
    ELSE FindSlotFrom(setupM, ship_type_name, i + 1)

RevenueRow(slot_num, include_tax) ==
    IF include_tax THEN revenue_incl_row + (slot_num - 1)
    ELSE revenue_excl_row + (slot_num - 1)

\* f"${revenue_value:,.2f}" formats a number; None has no such format and
\* the expression raises TypeError.
FormatsAsNumber(revenue_value) == revenue_value # None

\* Mutant of ReadTotalRevenue: on a match the revenue cell is overwritten with
\* a placeholder figure, whatever it holds, and the workbook is saved.
ReadTotalRevenueReseeding(f, ship_type_name, include_tax) ==
    LET slot_num == FindSlotFrom(f.setupM, ship_type_name, 0)
    IN  IF slot_num = None
        THEN Outcome(f, [NoResult EXCEPT !.kind = "dict",
                            !.success = Some(FALSE),
                            !.text = "Ship type not found in i_Setup tab"],
                     FALSE, {})
        ELSE LET revenue_row == RevenueRow(Val(slot_num), include_tax)
                 seed == Some(100000 * Val(slot_num))
             IN  Outcome([f EXCEPT !.calcM[revenue_row] = seed],
                         [NoResult EXCEPT !.kind = "dict",
                            !.success = Some(TRUE),
                            !.ship_type = Some(ship_type_name),
                            !.slot = slot_num,
                            !.revenue = seed,
                            !.include_tax = Some(include_tax),
                            !.label = f.calcH[revenue_row],
                            !.text = "Total revenue"],
                         TRUE, {<<"c_Calculations", "M", revenue_row>>})

\* read_total_revenue(ship_type_name, include_tax=False)
ReadTotalRevenue(f, ship_type_name, include_tax) ==
    LET slot_num == FindSlotFrom(f.setupM, ship_type_name, 0)
    IN  IF slot_num = None
        THEN Outcome(f, [NoResult EXCEPT !.kind = "dict",
                            !.success = Some(FALSE),
                            !.text = "Ship type not found in i_Setup tab"],
                     FALSE, {})
        ELSE LET revenue_row == RevenueRow(Val(slot_num), include_tax)
                 revenue_value == f.calcM[revenue_row]
                 label == f.calcH[revenue_row]
             IN  IF ~FormatsAsNumber(revenue_value)
                 THEN Outcome(f, Raise("TypeError"), FALSE, {})
                 ELSE Outcome(f, [NoResult EXCEPT !.kind = "dict",
                                    !.success = Some(TRUE),
                                    !.ship_type = Some(ship_type_name),
                                    !.slot = slot_num,
                                    !.revenue = revenue_value,
                                    !.include_tax = Some(include_tax),
                                    !.label = label,
                                    !.text = "Total revenue"],
                              FALSE, {})

\* `if ship_name and ship_name.strip()`
IsListed(ship_name) == Truthy(ship_name) /\ Strip(Val(ship_name)) # EmptyStr

\* Mutant of ShipTypesFrom: the loop index reported as the slot.
RECURSIVE ShipTypesZeroBased(_, _)
ShipTypesZeroBased(setupM, i) ==
    IF i >= SlotCount THEN <<>>
    ELSE LET row == ship_type_start_row + i
             ship_name == setupM[row]
         IN  (IF Truthy(ship_name) /\ Strip(Val(ship_name)) # EmptyStr
              THEN <<[slot |-> i, name |-> Val(ship_name), row |-> row]>>
              ELSE <<>>) \o ShipTypesZeroBased(setupM, i + 1)

\* The loop of get_all_ship_types from index i on: the entries appended.
RECURSIVE ShipTypesFrom(_, _)
ShipTypesFrom(setupM, i) ==
    IF i >= SlotCount THEN <<>>
    ELSE LET row == ship_type_start_row + i
             ship_name == setupM[row]
         IN  (IF IsListed(ship_name)
              THEN <<[slot |-> i + 1, name |-> Val(ship_name), row |-> row]>>
              ELSE <<>>) \o ShipTypesFrom(setupM, i + 1)

\* get_all_ship_types()
GetAllShipTypes(f) ==
    Outcome(f, [NoResult EXCEPT !.kind = "list",
                                !.items = ShipTypesFrom(f.setupM, 0)],
            FALSE, {})

\* The cells of 'i_Assumptions' that add_data_in_i_assumptions_tab assigns, as
\* <<column, row>>: M20:Q20, M34:Q34, Y/AF/AR 266:268, M275:Q279, M287:Q292.
ColsMQ == {ColShift("M", k) : k \in 0..4}
AssumptionCells ==
    (ColsMQ \X {20, 34}) \cup ({"Y", "AF", "AR"} \X (266..268))
    \cup (ColsMQ \X (275..279)) \cup (ColsMQ \X (287..292))

\* The cells of 'i_Assumptions' the model keeps: those, and two it never
\* assigns.
AssumptionSheetCells == AssumptionCells \cup {<<"L", 20>>, <<"M", 21>>}

values == <<1, 2, 3, 4, 5>>
cost_values == <<200000, 100000, 50000>>
opex_values == <<-1500, -2000, -500, -1000, -4000>>
staff_values == <<1, 2, 2, 5, 3, 2>>

\* `.formula = f'={prev_col_letter}{row}*{factor}'`
Formula(prev_col_letter, row, factor) ==
    [formula |-> <<prev_col_letter, row>>, times |-> factor]

\* col_offset of a column M..Q
ColOffset(col) == CHOOSE k \in 0..4 : ColShift("M", k) = col

\* Lines 158-227: what each assigned cell is given.
AssumptionData(col, row) ==
    IF row = 20 THEN values[ColOffset(col) + 1]
    ELSE IF row = 34
    THEN IF col = "M" THEN 120000
         ELSE Formula(ColShift(col, -1), row, "1.05")
    ELSE IF row \in 266..268 THEN cost_values[row - 265]
    ELSE IF row \in 275..279
    THEN IF col = "M" THEN opex_values[row - 274]
         ELSE Formula(ColShift(col, -1), row, "1.03")
    ELSE staff_values[row - 286]

\* add_data_in_i_assumptions_tab(ship_type_name); the argument is not used.
AddDataInIAssumptionsTab(f, ship_type_name) ==
    Outcome([f EXCEPT !.assumptions =
                [c \in DOMAIN f.assumptions |->
                    IF c \in AssumptionCells
                    THEN Some(AssumptionData(c[1], c[2]))
                    ELSE f.assumptions[c]]],
            [NoResult EXCEPT !.kind = "dict", !.success = Some(TRUE),
                             !.text = "Successfully populated i_Assumptions tab"],
            TRUE,
            {<<"i_Assumptions", c[1], c[2]>> : c \in AssumptionCells})

(***************************************************************************)
(* SalesForecastModel                                                      *)
(*                                                                         *)
(* A forecast value is a string; a dict is a set of <<key, value>> pairs.  *)
(* The 'Forecast input' sheet is its rows 6..LastSheetRow, each the nine   *)
(* cells B..J; the 'Sales forecast' sheet is its rows 6..LastSheetRow,     *)
(* each the three cells B..D.                                              *)
(***************************************************************************)
header_row == 6
first_data_row == 7
InputCols == 9
OutputCols == 3

SheetRows == header_row..LastSheetRow

\* Column B of a sheet, as the set of rows whose B cell holds a value.
ColumnB(sheet) == {r \in DOMAIN sheet : sheet[r][1] # None}

\* range(f'B{row}').end('down').row, Excel's End(xlDown) / Ctrl+Down: inside
\* a block of filled cells it stops on the block's last cell; from an empty
\* cell, or from the last cell of a block, it jumps to the next filled cell
\* below, and to the sheet's last row when there is none.
EndDown(filled, row) ==
    IF row >= LastSheetRow THEN LastSheetRow
    ELSE IF row \in filled /\ (row + 1) \in filled
    THEN CHOOSE r \in (row + 1)..LastSheetRow :
            /\ \A q \in row..r : q \in filled
            /\ (r = LastSheetRow \/ (r + 1) \notin filled)
    ELSE LET below == {r \in (row + 1)..LastSheetRow : r \in filled}
         IN  IF below = {} THEN LastSheetRow
             ELSE CHOOSE r \in below : \A q \in below : r <= q

\* data_dict.get(header, '')
DictGet(data_dict, key, default) ==
    IF \E p \in data_dict : p[1] = key
    THEN (CHOOSE p \in data_dict : p[1] = key)[2]
    ELSE default

\* `range(...).value = v` for a forecast value
StoreValue(v) == IF v = "" THEN None ELSE Some(v)

\* Lines 116-118: the values in header order.
RowData(headers, data_dict) ==
    [c \in 1..InputCols |->
        IF headers[c] = None THEN ""   \* no dict here has the key None
        ELSE DictGet(data_dict, Val(headers[c]), "")]

\* Line 113.
NewRow(last_row) == last_row + 1

\* add_forecast_input_row(data_dict).  A row below the sheet's last row is
\* no range: the assignment of line 121 raises and nothing is saved.
AddForecastInputRow(f, data_dict) ==
    LET headers == f.input[header_row]
        last_row == EndDown(ColumnB(f.input), first_data_row)
        new_row == NewRow(last_row)
        row_data == RowData(headers, data_dict)
    IN  IF new_row > LastSheetRow
        THEN Outcome(f, Raise("com_error"), FALSE, {})
        ELSE Outcome([f EXCEPT !.input[new_row] =
                          [c \in 1..InputCols |-> StoreValue(row_data[c])]],
                     [NoResult EXCEPT !.kind = "int", !.row = Some(new_row)],
                     TRUE,
                     {<<"Forecast input", ColShift("B", c - 1), new_row>> :
                         c \in 1..InputCols})

\* range(f'B6:D{last_row}').value: the rows as a list of lists
RangeRows(sheet, first, last) == [i \in 1..(last - first + 1) |-> sheet[first + i - 1]]

\* `if data and len(data) > 1`
HasDataRows(data) == data # <<>> /\ Len(data) > 1

\* read_sales_forecast(as_dataframe=True)
ReadSalesForecast(f, as_dataframe) ==
    LET last_row == EndDown(ColumnB(f.sales), first_data_row)
        data == RangeRows(f.sales, header_row, last_row)
    IN  IF as_dataframe
        THEN IF HasDataRows(data)
             THEN Outcome(f, [NoResult EXCEPT !.kind = "table",
                                !.columns = Head(data),
                                !.records = Tail(data)], FALSE, {})
             ELSE Outcome(f, [NoResult EXCEPT !.kind = "table"], FALSE, {})
        ELSE Outcome(f, [NoResult EXCEPT !.kind = "rows", !.records = data],
                     FALSE, {})

\* read_sales_forecast_range(range_address), for an address B{first}:D{last}
\* given as <<first, last>>.  `.value` of a range of several rows is a list of
\* rows (kind "rows"); of a single row it is the flat list of its cells
\* (kind "row", in columns).
ReadSalesForecastRange(f, range_address) ==
    LET first == range_address[1]
        last == range_address[2]
    IN  IF first = last
        THEN Outcome(f, [NoResult EXCEPT !.kind = "row",
                                         !.columns = f.sales[first]],
                     FALSE, {})
        ELSE Outcome(f, [NoResult EXCEPT !.kind = "rows",
                           !.records = RangeRows(f.sales, first, last)],
                     FALSE, {})

(***************************************************************************)
(* Agent                                                                   *)
(***************************************************************************)
Kw_ship == <<"s", "h", "i", "p">>
Kw_revenue == <<"r", "e", "v", "e", "n", "u", "e">>
Kw_list == <<"l", "i", "s", "t">>
Kw_get_all == <<"g", "e", "t", " ", "a", "l", "l">>
Kw_ship_type == <<"s", "h", "i", "p", " ", "t", "y", "p", "e">>
Kw_add == <<"a", "d", "d">>
Kw_sales == <<"s", "a", "l", "e", "s">>
Kw_forecast == <<"f", "o", "r", "e", "c", "a", "s", "t">>
Kw_read == <<"r", "e", "a", "d">>
Kw_get == <<"g", "e", "t">>
Kw_show == <<"s", "h", "o", "w">>

ToolNames == {"ship_management", "sales_forecast"}

\* A call of a model method, or of execute_task.
NoCall ==
    [op |-> "none", name |-> EmptyStr, slot |-> None, include_tax |-> FALSE,
     data |-> {}, as_dataframe |-> FALSE, range_address |-> <<>>,
     prompt |-> EmptyStr]

\* What execute_task did: both workbook files after it, the value returned or
\* raised, the model methods it invoked, and their effect.
AgentOutcome(sf, ff, out, calls) ==
    [ship |-> sf, forecast |-> ff, result |-> out.result,
     saved |-> out.saved, writes |-> out.writes, invoked |-> calls]

AgentSays(sf, ff, t) ==
    AgentOutcome(sf, ff, Outcome(sf, Str(t), FALSE, {}), <<>>)

\* Mutant of WantsList: `or` taken before `and`.
WantsListOrFirst(prompt) ==
    /\ (Contains(Kw_list, prompt) \/ Contains(Kw_get_all, prompt))
    /\ Contains(Kw_ship_type, prompt)

\* Line 34: `'list' in prompt or 'get all' in prompt and 'ship type' in prompt`
WantsList(prompt) ==
    \/ Contains(Kw_list, prompt)
    \/ (Contains(Kw_get_all, prompt) /\ Contains(Kw_ship_type, prompt))

\* Lines 34-48: the sub-task of a ship management prompt.
ShipSubTask(prompt) ==
    IF WantsList(prompt) THEN "get_all_ship_types"
    ELSE IF Contains(Kw_revenue, prompt) THEN "read_total_revenue"
    ELSE IF Contains(Kw_add, prompt) /\ Contains(Kw_ship_type, prompt)
    THEN "add_ship_type"
    ELSE "unknown"

\* Mutant of IsShipPrompt: 'revenue' forgotten.
IsShipPromptOnly(prompt) == Contains(Kw_ship, prompt)

\* Line 28.
IsShipPrompt(prompt) == Contains(Kw_ship, prompt) \/ Contains(Kw_revenue, prompt)

\* Line 50.
IsSalesPrompt(prompt) == Contains(Kw_sales, prompt) \/ Contains(Kw_forecast, prompt)

\* Line 56.
WantsForecast(prompt) ==
    Contains(Kw_read, prompt) \/ Contains(Kw_get, prompt) \/ Contains(Kw_show, prompt)

\* `self.tools.get(name)` followed by `if not tool`
HasTool(registered, name) == name \in registered

\* execute_task(prompt) of an Agent whose tools are `registered`
ExecuteTask(registered, sf, ff, given) ==
    LET prompt == Lower(given)
    IN  IF IsShipPrompt(prompt)
        THEN IF ~HasTool(registered, "ship_management")
             THEN AgentSays(sf, ff, "Error: Ship management tool not available.")
             ELSE LET task == ShipSubTask(prompt)
                  IN  IF task = "get_all_ship_types"
                      THEN AgentOutcome(sf, ff, GetAllShipTypes(sf),
                             <<[NoCall EXCEPT !.op = "get_all_ship_types"]>>)
                      ELSE IF task = "read_total_revenue"
                      THEN LET out == ReadTotalRevenue(sf, ContainerShips, FALSE)
                           IN  AgentOutcome(FileAfter(sf, out), ff, out,
                                 <<[NoCall EXCEPT !.op = "read_total_revenue",
                                                  !.name = ContainerShips]>>)
                      ELSE IF task = "add_ship_type"
                      THEN LET out == AddShipType(sf, BulkCarrier, None)
                           IN  AgentOutcome(FileAfter(sf, out), ff, out,
                                 <<[NoCall EXCEPT !.op = "add_ship_type",
                                                  !.name = BulkCarrier]>>)
                      ELSE AgentSays(sf, ff,
                             "Sorry, I don't understand that ship management command.")
        ELSE IF IsSalesPrompt(prompt)
        THEN IF ~HasTool(registered, "sales_forecast")
             THEN AgentSays(sf, ff, "Error: Sales forecast tool not available.")
             ELSE IF WantsForecast(prompt)
             THEN LET out == ReadSalesForecast(ff, TRUE)
                  IN  AgentOutcome(sf, FileAfter(ff, out), out,
                        <<[NoCall EXCEPT !.op = "read_sales_forecast",
                                         !.as_dataframe = TRUE]>>)
             ELSE AgentSays(sf, ff,
                    "Sorry, I don't understand that sales forecast command.")
        ELSE AgentSays(sf, ff,
               "Sorry, I couldn't determine which tool to use for that request.")

(***************************************************************************)
(* Inputs of the calls.                                                    *)
(***************************************************************************)
ShipNameArgs == {EmptyStr, Blank, VLCC, VlccPadded}
AddNameArgs == {EmptyStr, Blank, VLCC}
SlotArgs == {None} \cup {Some(n) : n \in 0..(SlotCount + 1)}

\* "Can you give me the list of ship types?"
P_list_demo ==
    <<"C","a","n"," ","y","o","u"," ","g","i","v","e"," ","m","e"," ","t",
      "h","e"," ","l","i","s","t"," ","o","f"," ","s","h","i","p"," ","t",
      "y","p","e","s","?">>
\* "What is the total revenue for Container Ships?"
P_revenue_demo ==
    <<"W","h","a","t"," ","i","s"," ","t","h","e"," ","t","o","t","a","l",
      " ","r","e","v","e","n","u","e"," ","f","o","r"," ","C","o","n","t",
      "a","i","n","e","r"," ","S","h","i","p","s","?">>
\* "Add a new ship type for Bulk Carrier"
P_add_demo ==
    <<"A","d","d"," ","a"," ","n","e","w"," ","s","h","i","p"," ","t","y",
      "p","e"," ","f","o","r"," ","B","u","l","k"," ","C","a","r","r","i",
      "e","r">>
\* "Get all ship types"
P_get_all_demo ==
    <<"G","e","t"," ","a","l","l"," ","s","h","i","p"," ","t","y","p","e",
      "s">>
\* "Show me the sales forecast."
P_show_demo ==
    <<"S","h","o","w"," ","m","e"," ","t","h","e"," ","s","a","l","e","s",
      " ","f","o","r","e","c","a","s","t",".">>
\* "list ship types"
P_list_plain ==
    <<"l","i","s","t"," ","s","h","i","p"," ","t","y","p","e","s">>
\* "LIST SHIP TYPES"
P_list_upper ==
    <<"L","I","S","T"," ","S","H","I","P"," ","T","Y","P","E","S">>
\* "show revenue forecast"
P_revenue_forecast ==
    <<"s","h","o","w"," ","r","e","v","e","n","u","e"," ","f","o","r","e",
      "c","a","s","t">>
\* "add ship type revenue"
P_add_revenue ==
    <<"a","d","d"," ","s","h","i","p"," ","t","y","p","e"," ","r","e","v",
      "e","n","u","e">>
\* "list revenue"
P_list_revenue ==
    <<"l","i","s","t"," ","r","e","v","e","n","u","e">>
\* "get all ships"
P_get_all_ships ==
    <<"g","e","t"," ","a","l","l"," ","s","h","i","p","s">>
\* "add a ship"
P_add_ship ==
    <<"a","d","d"," ","a"," ","s","h","i","p">>
\* "read ship sales forecast"
P_ship_sales ==
    <<"r","e","a","d"," ","s","h","i","p"," ","s","a","l","e","s"," ","f",
      "o","r","e","c","a","s","t">>
\* "REVENUE"
P_revenue_upper ==
    <<"R","E","V","E","N","U","E">>
\* "sales report"
P_sales_report ==
    <<"s","a","l","e","s"," ","r","e","p","o","r","t">>
\* "list sales forecast"
P_list_sales ==
    <<"l","i","s","t"," ","s","a","l","e","s"," ","f","o","r","e","c","a",
      "s","t">>
\* "get forecast"
P_get_forecast ==
    <<"g","e","t"," ","f","o","r","e","c","a","s","t">>
\* "hello"
P_hello ==
    <<"h","e","l","l","o">>
\* ""
P_empty ==
    <<>>

Prompts ==
    {P_list_demo, P_revenue_demo, P_add_demo, P_get_all_demo,
     P_show_demo, P_list_plain, P_list_upper, P_revenue_forecast,
     P_add_revenue, P_list_revenue, P_get_all_ships, P_add_ship,
     P_ship_sales, P_revenue_upper, P_sales_report, P_list_sales,
     P_get_forecast, P_hello, P_empty}

Headers ==
    <<"Opportunity name", "Sales agent", "Sales region", "Sales category",
      "Forecast amount", "Sales phase", "Probability of sale",
      "Forecast close", "Weighted forecast">>

\* data_dict arguments: every header, every header but column B's, nothing.
FullDict == {<<Headers[c], "new">> : c \in 1..InputCols}
NoNameDict == {<<Headers[c], "new">> : c \in 2..InputCols}
DataDicts == {FullDict, NoNameDict, {}}

\* range_address arguments, as <<first row, last row>> of columns B..D:
\* 'B6:D8' and 'B7:D7'.
RangeArgs ==
    {<<header_row, first_data_row + 1>>, <<first_data_row, first_data_row>>}

(***************************************************************************)
(* Workbooks the calls start from.  A name cell is empty (None), holds ''  *)
(* (a formula that yields ''), or holds text; a revenue cell is empty or   *)
(* holds a number.                                                         *)
(***************************************************************************)
NoNames == [s \in Slots |-> None]
DemoNames == [NoNames EXCEPT ![1] = Some(ContainerShips), ![3] = Some(VLCC)]
HoleNames ==
    [NoNames EXCEPT ![1] = Some(ContainerShipsPadded), ![2] = Some(Blank),
                    ![3] = Some(EmptyStr), ![4] = Some(VLCC),
                    ![6] = Some(VlccPadded)]
NineNames == [s \in Slots |-> IF s = SlotCount THEN None ELSE Some(VLCC)]
FullNames ==
    [s \in Slots |-> IF s = 2 THEN Some(Blank)
                     ELSE IF s = 8 THEN Some(ContainerShips)
                     ELSE Some(VLCC)]
InitNames == {NoNames, DemoNames, HoleNames, NineNames, FullNames}

TotalLabel == <<"T", "o", "t", "a", "l">>

NoRevenue == [r \in CalcRows |-> None]
SomeRevenue ==
    [r \in CalcRows |-> IF r % 2 = 0 THEN None ELSE Some(500 * r)]
InitRevenue == {NoRevenue, SomeRevenue}

ShipWorkbook(names, revenue) ==
    [setupM |-> [r \in SetupRows |-> names[r - ship_type_start_row + 1]],
     setupP |-> [r \in SetupRows |->
                   IF Truthy(names[r - ship_type_start_row + 1])
                   THEN Some(Yes) ELSE None],
     calcM |-> revenue,
     calcH |-> [r \in CalcRows |-> Some(TotalLabel)],
     assumptions |-> [c \in AssumptionSheetCells |-> None]]

InitShipFiles == {ShipWorkbook(n, v) : n \in InitNames, v \in InitRevenue}

Months == <<"Jan", "Feb", "Mar", "Apr", "May", "Jun", "Jul", "Aug", "Sep",
           "Oct", "Nov", "Dec">>

EmptyInputRow == [c \in 1..InputCols |-> None]
OldInputRow == [c \in 1..InputCols |-> Some("old")]
EmptyOutputRow == [c \in 1..OutputCols |-> None]

\* A 'Forecast input' sheet whose data rows are `rows`, under the header row.
InputSheet(rows) ==
    [r \in SheetRows |->
        IF r = header_row THEN [c \in 1..InputCols |-> Some(Headers[c])]
        ELSE IF r \in rows THEN OldInputRow ELSE EmptyInputRow]

\* A 'Sales forecast' sheet whose month rows are `rows`, under the header row.
OutputSheet(rows) ==
    [r \in SheetRows |->
        IF r = header_row THEN <<Some("Month"), Some("Monthly forecast"),
                                 Some("Cumulative")>>
        ELSE IF r \in rows THEN <<Some(Months[r - header_row]), Some("amount"),
                                   Some("sum")>>
        ELSE EmptyOutputRow]

DataRows == first_data_row..LastSheetRow

ForecastWorkbook(inRows, outRows) ==
    [input |-> InputSheet(inRows), sales |-> OutputSheet(outRows)]

(***************************************************************************)
(* The state machine.  shipFile and forecastFile are the two workbook      *)
(* files; tools is the Agent's registry; call, invoked, result and effect  *)
(* describe the last call: what was called, the model methods that ran,    *)
(* what came back, and what it did to the file.  saves counts wb.save().   *)
(***************************************************************************)
NoEffect == [saved |-> FALSE, writes |-> {}]

\* The callers that may be inside a model method at the same time.
Callers == {"a", "b"}

\* A caller that has not called anything yet.
NotRunning ==
    [pc |-> "idle", call |-> NoCall, version |-> 0,
     out |-> Outcome(None, NoResult, FALSE, {})]

Start ==
    /\ call = NoCall
    /\ invoked = <<>>
    /\ result = NoResult
    /\ effect = NoEffect
    /\ saves = 0
    /\ running = [p \in Callers |-> NotRunning]
    /\ books = {}
    /\ started = 0

\* One call of a ShipManagementModel method.
ShipStep(out, c) ==
    /\ out.saved => saves < MaxSaves
    /\ shipFile' = FileAfter(shipFile, out)
    /\ call' = c
    /\ invoked' = <<c>>
    /\ result' = out.result
    /\ effect' = [saved |-> out.saved, writes |-> out.writes]
    /\ saves' = IF out.saved THEN saves + 1 ELSE saves
    /\ UNCHANGED <<forecastFile, tools, running, books, started>>

DoAddShipType ==
    \E name \in AddNameArgs, slot \in SlotArgs :
        \E out \in {AddShipType(shipFile, name, slot)} :
            ShipStep(out, [NoCall EXCEPT !.op = "add_ship_type",
                                         !.name = name, !.slot = slot])

DoReadTotalRevenue ==
    \E name \in ShipNameArgs, tax \in BOOLEAN :
        \E out \in {ReadTotalRevenue(shipFile, name, tax)} :
            ShipStep(out, [NoCall EXCEPT !.op = "read_total_revenue",
                                         !.name = name, !.include_tax = tax])

DoGetAllShipTypes ==
    \E out \in {GetAllShipTypes(shipFile)} :
        ShipStep(out, [NoCall EXCEPT !.op = "get_all_ship_types"])

Init ==
    /\ shipFile \in InitShipFiles
    /\ forecastFile = ForecastWorkbook({}, {})
    /\ tools = {}
    /\ Start

Next == DoAddShipType \/ DoReadTotalRevenue \/ DoGetAllShipTypes

Spec == Init /\ [][Next]_vars

\* One call of a SalesForecastModel method.
ForecastStep(out, c) ==
    /\ out.saved => saves < MaxAppends
    /\ forecastFile' = FileAfter(forecastFile, out)
    /\ call' = c
    /\ invoked' = <<c>>
    /\ result' = out.result
    /\ effect' = [saved |-> out.saved, writes |-> out.writes]
    /\ saves' = IF out.saved THEN saves + 1 ELSE saves
    /\ UNCHANGED <<shipFile, tools, running, books, started>>

DoAddForecastInputRow ==
    \E data_dict \in DataDicts :
        \E out \in {AddForecastInputRow(forecastFile, data_dict)} :
            ForecastStep(out, [NoCall EXCEPT !.op = "add_forecast_input_row",
                                             !.data = data_dict])

DoReadSalesForecast ==
    \E as_dataframe \in BOOLEAN :
        \E out \in {ReadSalesForecast(forecastFile, as_dataframe)} :
            ForecastStep(out, [NoCall EXCEPT !.op = "read_sales_forecast",
                                             !.as_dataframe = as_dataframe])

InitForecast ==
    /\ shipFile = ShipWorkbook(NoNames, NoRevenue)
    /\ forecastFile \in {ForecastWorkbook(i, o) :
                            i \in SUBSET DataRows, o \in SUBSET DataRows}
    /\ tools = {}
    /\ Start

NextForecast == DoAddForecastInputRow \/ DoReadSalesForecast

SpecForecast == InitForecast /\ [][NextForecast]_vars

\* The seven methods of the two models, one whole call each.
DoAddDataInIAssumptionsTab ==
    \E out \in {AddDataInIAssumptionsTab(shipFile, VLCC)} :
        ShipStep(out, [NoCall EXCEPT !.op = "add_data_in_i_assumptions_tab",
                                     !.name = VLCC])

DoReadSalesForecastRange ==
    \E range_address \in RangeArgs :
        \E out \in {ReadSalesForecastRange(forecastFile, range_address)} :
            ForecastStep(out, [NoCall EXCEPT
                                 !.op = "read_sales_forecast_range",
                                 !.range_address = range_address])

InitModels ==
    /\ shipFile \in {ShipWorkbook(HoleNames, SomeRevenue),
                      ShipWorkbook(FullNames, SomeRevenue)}
    /\ forecastFile =
          ForecastWorkbook(first_data_row..(first_data_row + 1),
                           first_data_row..(first_data_row + 2))
    /\ tools = {}
    /\ Start

NextModels ==
    \/ DoAddShipType
    \/ DoAddDataInIAssumptionsTab
    \/ DoReadTotalRevenue
    \/ DoGetAllShipTypes
    \/ DoAddForecastInputRow
    \/ DoReadSalesForecast
    \/ DoReadSalesForecastRange

SpecModels == InitModels /\ [][NextModels]_vars

\* One call of Agent.execute_task.
DoExecuteTask ==
    \E prompt \in Prompts :
        \E out \in {ExecuteTask(tools, shipFile, forecastFile, prompt)} :
            /\ out.saved => saves < MaxSaves
            /\ shipFile' = out.ship
            /\ forecastFile' = out.forecast
            /\ call' = [NoCall EXCEPT !.op = "execute_task", !.prompt = prompt]
            /\ invoked' = out.invoked
            /\ result' = out.result
            /\ effect' = [saved |-> out.saved, writes |-> out.writes]
            /\ saves' = IF out.saved THEN saves + 1 ELSE saves
            /\ UNCHANGED <<tools, running, books, started>>

InitAgent ==
    /\ shipFile \in InitShipFiles
    /\ forecastFile \in {ForecastWorkbook({}, o) :
                            o \in {{}, {first_data_row},
                                   first_data_row..(first_data_row + 2)}}
    /\ tools \in SUBSET ToolNames
    /\ Start

NextAgent == DoExecuteTask

SpecAgent == InitAgent /\ [][NextAgent]_vars

(***************************************************************************)
(* The model methods step by step.  Every method is                        *)
(*     wb = xw.Book(self.file_path); try: <body> finally: wb.close()       *)
(* and a caller goes through it as: OpenBook (pc "opened"), RunBody (the   *)
(* body on the opened workbook, up to wb.save(), the return or the raise), *)
(* SaveBook where the body reaches wb.save() (pc "save"), and CloseBook,   *)
(* the finally clause (pc "finally"), after which the value is returned    *)
(* or the exception leaves the method (pc "idle").  Each caller's opened   *)
(* workbook is its own copy of the file's content; nothing in the methods  *)
(* keeps two callers apart.                                                *)
(*                                                                         *)
(* running[p] is caller p's call: its pc, the call, the number of saves    *)
(* the file had when p opened it (version), and out, the opened workbook   *)
(* with the value to return or raise, whether wb.save() has run and the    *)
(* cells assigned.  After the call out.wb is the workbook as p closed it.  *)
(* books is the set of callers whose workbook is open.                     *)
(***************************************************************************)
ShipOps ==
    {"add_ship_type", "add_data_in_i_assumptions_tab", "read_total_revenue",
     "get_all_ship_types"}

\* self.file_path of the model whose method is called
FileOf(c) == IF c.op \in ShipOps THEN shipFile ELSE forecastFile

\* Mutant of Body: the body works on the file as it is now, not on the
\* workbook the caller opened.
BodyOnFile(c, wb) ==
    CASE c.op = "add_ship_type" -> AddShipType(FileOf(c), c.name, c.slot)
      [] c.op = "add_data_in_i_assumptions_tab" ->
            AddDataInIAssumptionsTab(FileOf(c), c.name)
      [] c.op = "read_total_revenue" ->
            ReadTotalRevenue(FileOf(c), c.name, c.include_tax)
      [] c.op = "get_all_ship_types" -> GetAllShipTypes(FileOf(c))
      [] c.op = "add_forecast_input_row" ->
            AddForecastInputRow(FileOf(c), c.data)
      [] c.op = "read_sales_forecast" ->
            ReadSalesForecast(FileOf(c), c.as_dataframe)
      [] c.op = "read_sales_forecast_range" ->
            ReadSalesForecastRange(FileOf(c), c.range_address)

\* The body of the method called, on the opened workbook wb.
Body(c, wb) ==
    CASE c.op = "add_ship_type" -> AddShipType(wb, c.name, c.slot)
      [] c.op = "add_data_in_i_assumptions_tab" ->
            AddDataInIAssumptionsTab(wb, c.name)
      [] c.op = "read_total_revenue" ->
            ReadTotalRevenue(wb, c.name, c.include_tax)
      [] c.op = "get_all_ship_types" -> GetAllShipTypes(wb)
      [] c.op = "add_forecast_input_row" -> AddForecastInputRow(wb, c.data)
      [] c.op = "read_sales_forecast" ->
            ReadSalesForecast(wb, c.as_dataframe)
      [] c.op = "read_sales_forecast_range" ->
            ReadSalesForecastRange(wb, c.range_address)

\* Mutant of AfterBody: no finally clause, an exception leaves the method at
\* once.
AfterBodyNoFinally(out) ==
    IF out.saved THEN "save"
    ELSE IF out.result.kind = "raise" THEN "idle" ELSE "finally"

\* Where the body leaves the caller: at wb.save(), or, by a return or a raise
\* inside the try block, at the finally clause.
AfterBody(out) == IF out.saved THEN "save" ELSE "finally"

\* The calls of the step-by-step specification.
StepCalls ==
    {[NoCall EXCEPT !.op = "add_ship_type", !.name = n, !.slot = k] :
        n \in {VLCC, BulkCarrier},
        k \in {None, Some(-1), Some(0), Some(4), Some(SlotCount + 1)}}
    \cup {[NoCall EXCEPT !.op = "add_data_in_i_assumptions_tab",
                         !.name = VLCC]}
    \cup {[NoCall EXCEPT !.op = "read_total_revenue", !.name = VLCC,
                         !.include_tax = TRUE],
          [NoCall EXCEPT !.op = "read_total_revenue",
                         !.name = ContainerShips]}
    \cup {[NoCall EXCEPT !.op = "get_all_ship_types"]}
    \cup {[NoCall EXCEPT !.op = "add_forecast_input_row", !.data = FullDict]}
    \cup {[NoCall EXCEPT !.op = "read_sales_forecast", !.as_dataframe = b] :
            b \in BOOLEAN}
    \cup {[NoCall EXCEPT !.op = "read_sales_forecast_range",
                         !.range_address = r] :
            r \in RangeArgs}

\* Line 98 and its like: wb = xw.Book(self.file_path).
OpenBook(p) ==
    /\ running[p].pc = "idle"
    /\ started < MaxCalls
    /\ \E c \in StepCalls :
          running' = [running EXCEPT ![p] =
                        [pc |-> "opened", call |-> c, version |-> saves,
                         out |-> Outcome(FileOf(c), NoResult, FALSE, {})]]
    /\ books' = books \cup {p}
    /\ started' = started + 1
    /\ UNCHANGED <<shipFile, forecastFile, tools, call, invoked, result,
                   effect, saves>>

\* The try block up to wb.save(), a return or a raise.
RunBody(p) ==
    /\ running[p].pc = "opened"
    /\ \E out \in {Body(running[p].call, running[p].out.wb)} :
          running' = [running EXCEPT ![p].pc = AfterBody(out),
                                     ![p].out = [out EXCEPT !.saved = FALSE]]
    /\ UNCHANGED <<shipFile, forecastFile, tools, call, invoked, result,
                   effect, saves, books, started>>

\* wb.save(): the file becomes the opened workbook.
SaveBook(p) ==
    /\ running[p].pc = "save"
    /\ \E out \in {[running[p].out EXCEPT !.saved = TRUE]} :
          /\ running' = [running EXCEPT ![p].pc = "finally", ![p].out = out]
          /\ IF running[p].call.op \in ShipOps
             THEN /\ shipFile' = FileAfter(shipFile, out)
                  /\ UNCHANGED forecastFile
             ELSE /\ forecastFile' = FileAfter(forecastFile, out)
                  /\ UNCHANGED shipFile
    /\ saves' = saves + 1
    /\ UNCHANGED <<tools, call, invoked, result, effect, books, started>>

\* finally: wb.close(), then the return or the exception.
CloseBook(p) ==
    /\ running[p].pc = "finally"
    /\ running' = [running EXCEPT ![p].pc = "idle"]
    /\ books' = books \ {p}
    /\ UNCHANGED <<shipFile, forecastFile, tools, call, invoked, result,
                   effect, saves, started>>

StepShipFiles ==
    {ShipWorkbook(DemoNames, SomeRevenue), ShipWorkbook(NineNames, NoRevenue),
     ShipWorkbook(FullNames, SomeRevenue)}
StepForecastFiles ==
    {ForecastWorkbook({}, {}),
     ForecastWorkbook(first_data_row..(first_data_row + 1),
                      first_data_row..(first_data_row + 2))}

InitSteps ==
    /\ shipFile \in StepShipFiles
    /\ forecastFile \in StepForecastFiles
    /\ tools = {}
    /\ Start

NextSteps ==
    \E p \in Callers : OpenBook(p) \/ RunBody(p) \/ SaveBook(p) \/ CloseBook(p)

SpecSteps == InitSteps /\ [][NextSteps]_vars

(***************************************************************************)
(* Properties.                                                             *)
(***************************************************************************)
\* The name cell of slot s (i_Setup, column M, row 32 + s - 1) of file f.
NameCell(f, s) == f.setupM[ship_type_start_row + s - 1]

\* The slots of file f whose name cell is empty (no value, or '').
EmptySlots(f) ==
    {s \in Slots : NameCell(f, s) = None \/ NameCell(f, s) = Some(EmptyStr)}

\* The lowest number of a non-empty set of numbers.
Lowest(S) == CHOOSE s \in S : \A t \in S : s <= t

\* The slots of file f whose stored name equals name n once both are trimmed
\* and their letter case is dropped.
MatchingSlots(f, n) ==
    {s \in Slots : /\ s \notin EmptySlots(f)
                   /\ Upper(Strip(Val(NameCell(f, s)))) = Upper(Strip(n))}

\* C1: a call of add_ship_type with no slot argument writes the name into the
\* lowest-numbered slot whose name cell was empty and reports that slot; when
\* no name cell was empty it returns success = False without raising, assigns
\* no cell, does not save, and leaves the file as it was.
C1_AddTargetsLowestEmptySlot ==
    [][(call'.op = "add_ship_type" /\ call'.slot = None) =>
        IF EmptySlots(shipFile) = {}
        THEN /\ result'.kind = "dict"
             /\ result'.success = Some(FALSE)
             /\ effect' = NoEffect
             /\ shipFile' = shipFile
        ELSE LET s == Lowest(EmptySlots(shipFile))
             IN  /\ result'.kind = "dict"
                 /\ result'.success = Some(TRUE)
                 /\ result'.slot = Some(s)
                 /\ <<"i_Setup", "M", ship_type_start_row + s - 1>>
                        \in effect'.writes
                 /\ \A t \in Slots \ {s} :
                        NameCell(shipFile', t) = NameCell(shipFile, t)
                 /\ NameCell(shipFile', s) = StoreText(call'.name)]_vars

\* C1 witness: a call with no slot argument has just failed on a full sheet
\* whose slot 10 was filled earlier in the behaviour by the one save.
C1_Witness ==
    /\ call.op = "add_ship_type"
    /\ call.slot = None
    /\ result.success = Some(FALSE)
    /\ EmptySlots(shipFile) = {}
    /\ saves = 1

\* The entries of a returned list whose slot is s.
EntriesOfSlot(items, s) == {i \in 1..Len(items) : items[i].slot = s}

\* A call of add_ship_type with slot s in 1..10 has returned, and the next
\* call is get_all_ship_types.
AddThenList(s) ==
    /\ call.op = "add_ship_type"
    /\ call.slot = Some(s)
    /\ result.kind = "dict"
    /\ call'.op = "get_all_ship_types"

\* The list returned holds exactly one entry for slot s, named n.
ListsOnce(items, s, n) ==
    /\ Cardinality(EntriesOfSlot(items, s)) = 1
    /\ \A i \in EntriesOfSlot(items, s) : items[i].name = n

\* C2 as stated: for every slot s in 1..10 and every name n,
\* add_ship_type(n, s) followed by get_all_ship_types() returns a list with
\* exactly one entry for slot s, and its name is n.
C2_AddThenListShowsName ==
    [][\A s \in Slots :
        AddThenList(s) => ListsOnce(result'.items, s, call.name)]_vars

\* C2 amended: the same, for every name n that is not empty once its
\* surrounding whitespace is trimmed.
C2_AddThenListShowsNonBlankName ==
    [][\A s \in Slots :
        (AddThenList(s) /\ Strip(call.name) # EmptyStr)
            => ListsOnce(result'.items, s, call.name)]_vars

\* C2 witness: get_all_ship_types has listed slot 5 as "VLCC" on a sheet whose
\* slot 1 is empty, which only add_ship_type("VLCC", 5) produces.
C2_Witness ==
    /\ call.op = "get_all_ship_types"
    /\ saves = 1
    /\ NameCell(shipFile, 1) = None
    /\ ListsOnce(result.items, 5, VLCC)

\* C3: read_total_revenue(name) resolves name to the lowest-numbered slot
\* whose stored name equals it after trimming and ignoring case on both
\* sides, so that names differing only in case or surrounding whitespace
\* resolve to the same slot; with no such slot it returns success = False
\* and does not raise.
C3_ReadResolvesLowestMatch ==
    /\ \A n \in ShipNameArgs :
          FindSlotFrom(shipFile.setupM, n, 0) =
              IF MatchingSlots(shipFile, n) = {} THEN None
              ELSE Some(Lowest(MatchingSlots(shipFile, n)))
    /\ \A n1, n2 \in ShipNameArgs :
          Upper(Strip(n1)) = Upper(Strip(n2)) =>
              FindSlotFrom(shipFile.setupM, n1, 0)
                  = FindSlotFrom(shipFile.setupM, n2, 0)
    /\ call.op = "read_total_revenue" =>
          IF MatchingSlots(shipFile, call.name) = {}
          THEN result.kind = "dict" /\ result.success = Some(FALSE)
          ELSE result.kind = "dict" =>
                  /\ result.success = Some(TRUE)
                  /\ result.slot = Some(Lowest(MatchingSlots(shipFile, call.name)))

\* C3 witness: " vlcc " has resolved to slot 4, which holds "VLCC", ahead of
\* slot 6, which holds " vlcc " itself.
C3_Witness ==
    /\ call.op = "read_total_revenue"
    /\ call.name = VlccPadded
    /\ NameCell(shipFile, 4) = Some(VLCC)
    /\ NameCell(shipFile, 6) = Some(VlccPadded)
    /\ result.success = Some(TRUE)
    /\ result.slot = Some(4)

\* The revenue cell read_total_revenue reads for slot s (c_Calculations,
\* column M): row 44 + (s - 1) without tax, row 61 + (s - 1) with tax.
RevenueCellRow(s, tax) == IF tax THEN 61 + (s - 1) ELSE 44 + (s - 1)

\* The placeholder figure of slot s.
SeedValue(s, tax) == IF tax THEN 120000 * s ELSE 100000 * s

\* C4 as stated: when read_total_revenue matches a name in slot s and the
\* revenue cell it reads is empty, the call leaves 100000 * s (without tax) or
\* 120000 * s (with tax) in that cell and returns success = True with that
\* revenue.
C4_ReadSeedsEmptyRevenueCell ==
    [][(/\ call'.op = "read_total_revenue"
        /\ MatchingSlots(shipFile, call'.name) # {}) =>
        LET s == Lowest(MatchingSlots(shipFile, call'.name))
            row == RevenueCellRow(s, call'.include_tax)
            seed == SeedValue(s, call'.include_tax)
        IN  shipFile.calcM[row] = None =>
                /\ shipFile'.calcM[row] = Some(seed)
                /\ result'.kind = "dict"
                /\ result'.success = Some(TRUE)
                /\ result'.revenue = Some(seed)]_vars

\* C4: what the code does there instead.  A match whose revenue cell is empty
\* ends in a TypeError, and the cell stays empty.
C4_Witness ==
    /\ call.op = "read_total_revenue"
    /\ call.name = VlccPadded
    /\ ~call.include_tax
    /\ NameCell(shipFile, 3) = Some(VLCC)
    /\ MatchingSlots(shipFile, call.name) = {3}
    /\ shipFile.calcM[46] = None
    /\ result.kind = "raise"
    /\ result.exc = "TypeError"

LastFilledRow(sheet) ==
    CHOOSE k \in ColumnB(sheet) \cup {header_row} :
        \A r \in ColumnB(sheet) \cup {header_row} : r <= k

\* C6 as stated: add_forecast_input_row writes the new record at, and
\* returns, the row directly below the last non-empty row of column B at or
\* below header row 6: row k + 1 with data through row k, row 7 with no data
\* rows at all.  (Stated for a sheet that has a row below row k.)
C6_AppendsBelowLastFilledRow ==
    [][call'.op = "add_forecast_input_row" =>
        LET k == LastFilledRow(forecastFile.input)
        IN  k < LastSheetRow =>
                /\ result'.kind = "int"
                /\ result'.row = Some(k + 1)
                /\ <<"Forecast input", "B", k + 1>> \in effect'.writes]_vars

\* C6: what the code does on a sheet with no data rows.  The append ends in
\* an error and the sheet stays empty.
C6_Witness ==
    /\ call.op = "add_forecast_input_row"
    /\ call.data = FullDict
    /\ ColumnB(forecastFile.input) = {header_row}
    /\ result.kind = "raise"
    /\ saves = 0

\* C7 as stated: read_sales_forecast with as_dataframe = True returns an
\* empty table when the range from header row 6 through the last populated
\* row of column B holds fewer than 2 rows, and otherwise a table whose
\* column names are the values of header row 6 and whose records are exactly
\* the rows 7..last populated row.
C7_TableOfPopulatedRows ==
    (call.op = "read_sales_forecast" /\ call.as_dataframe) =>
        LET last == LastFilledRow(forecastFile.sales)
        IN  /\ result.kind = "table"
            /\ IF last - header_row + 1 < 2
               THEN result.columns = <<>> /\ result.records = <<>>
               ELSE /\ result.columns = forecastFile.sales[header_row]
                    /\ result.records =
                         [i \in 1..(last - header_row) |->
                             forecastFile.sales[header_row + i]]

\* C7: what the code does on a sheet that holds the header row only.  The
\* table returned has one record, all empty, for every row down to the
\* sheet's last row.
C7_Witness ==
    /\ call.op = "read_sales_forecast"
    /\ call.as_dataframe
    /\ ColumnB(forecastFile.sales) = {header_row}
    /\ result.kind = "table"
    /\ Len(result.records) = LastSheetRow - header_row
    /\ \A i \in 1..Len(result.records) : result.records[i] = EmptyOutputRow

\* The lower-cased text of the prompt of the last call holds keyword kw.
Has(kw) == Contains(kw, Lower(call.prompt))

\* The one model method the last execute_task invoked was op, on ship type
\* name n with no slot and no tax, and no other.
InvokedOnly(op, n) == invoked = <<[NoCall EXCEPT !.op = op, !.name = n]>>

\* C8: with the ship_management tool registered, a prompt whose lower-cased
\* text holds "ship" or "revenue" gets exactly one outcome, in this order:
\* get_all_ship_types if it holds "list", or both "get all" and "ship type";
\* else read_total_revenue("Container Ships") if it holds "revenue"; else
\* add_ship_type("Bulk Carrier") with no slot if it holds "add" and
\* "ship type"; else the fixed don't-understand string.  The sales-forecast
\* tool is never invoked for it.
C8_ShipPromptRouting ==
    (/\ call.op = "execute_task"
     /\ "ship_management" \in tools
     /\ (Has(Kw_ship) \/ Has(Kw_revenue))) =>
        /\ IF Has(Kw_list) \/ (Has(Kw_get_all) /\ Has(Kw_ship_type))
           THEN InvokedOnly("get_all_ship_types", EmptyStr)
                /\ result.kind = "list"
           ELSE IF Has(Kw_revenue)
           THEN InvokedOnly("read_total_revenue", ContainerShips)
                /\ result.kind \in {"dict", "raise"}
           ELSE IF Has(Kw_add) /\ Has(Kw_ship_type)
           THEN InvokedOnly("add_ship_type", BulkCarrier)
                /\ result.kind = "dict"
           ELSE invoked = <<>>
                /\ result = Str("Sorry, I don't understand that ship management command.")
        /\ \A i \in 1..Len(invoked) : invoked[i].op # "read_sales_forecast"

\* C8 witness: "show revenue forecast", with both tools registered, has gone
\* to read_total_revenue and not to the sales-forecast tool.
C8_Witness ==
    /\ call.op = "execute_task"
    /\ call.prompt = P_revenue_forecast
    /\ tools = ToolNames
    /\ InvokedOnly("read_total_revenue", ContainerShips)
    /\ result.success = Some(TRUE)

\* C9: with no ship_management tool registered, a prompt that holds "ship" or
\* "revenue" in any letter case returns the string "Error: Ship management
\* tool not available." and no model method is invoked, whatever else is
\* registered or in the prompt.
C9_NoShipToolIsReported ==
    (/\ call.op = "execute_task"
     /\ "ship_management" \notin tools
     /\ (Has(Kw_ship) \/ Has(Kw_revenue))) =>
        /\ result = Str("Error: Ship management tool not available.")
        /\ invoked = <<>>
        /\ effect = NoEffect

\* C9 witness: "LIST SHIP TYPES" has got that string from an Agent that holds
\* the sales-forecast tool only.
C9_Witness ==
    /\ call.op = "execute_task"
    /\ call.prompt = P_list_upper
    /\ tools = {"sales_forecast"}
    /\ result = Str("Error: Ship management tool not available.")

\* C10 as stated: execute_task never raises; a name that is not found, a full
\* sheet, an empty revenue cell and a prompt that is not understood all come
\* back as return values, and an empty revenue cell reads as revenue 0.
C10_ExecuteTaskNeverRaises ==
    call.op = "execute_task" =>
        /\ result.kind # "raise"
        /\ (/\ InvokedOnly("read_total_revenue", ContainerShips)
            /\ result.success = Some(TRUE)
            /\ shipFile.calcM[RevenueCellRow(Val(result.slot), FALSE)] = None)
               => result.revenue = Some(0)

\* C10: what the code does when the revenue cell of "Container Ships" is
\* empty.  The TypeError of read_total_revenue leaves execute_task.
C10_Witness ==
    /\ call.op = "execute_task"
    /\ call.prompt = P_revenue_demo
    /\ "ship_management" \in tools
    /\ NameCell(shipFile, 1) = Some(ContainerShips)
    /\ shipFile.calcM[44] = None
    /\ result.kind = "raise"
    /\ result.exc = "TypeError"

\* The call in record r of running is add_ship_type with a slot argument that
\* is given and outside 1..10.
BadSlotCall(r) ==
    /\ r.call.op = "add_ship_type"
    /\ r.call.slot # None
    /\ Val(r.call.slot) \notin 1..10

\* C11: add_ship_type called with a slot argument outside 1..10 raises an
\* error (ValueError) and returns no dict; it never reaches wb.save(),
\* assigns no cell, leaves the opened workbook and the file as they were, and
\* has closed its workbook when the error leaves the method.
C11_BadSlotRaisesAndCloses ==
    /\ [](\A p \in Callers : BadSlotCall(running[p]) =>
            /\ running[p].pc # "save"
            /\ ~running[p].out.saved
            /\ running[p].out.writes = {}
            /\ running[p].pc \in {"finally", "idle"} =>
                   running[p].out.result = Raise("ValueError")
            /\ running[p].pc = "idle" => p \notin books)
    /\ [][\A p \in Callers :
            (BadSlotCall(running'[p]) /\ running'[p] # running[p]) =>
                /\ shipFile' = shipFile
                /\ running[p].pc # "idle" =>
                       running'[p].out.wb = running[p].out.wb]_vars

\* C11 witness: add_ship_type("VLCC", 11) has raised ValueError and its
\* workbook is closed, while the other caller's workbook is still open.
C11_Witness ==
    /\ running["a"].call.op = "add_ship_type"
    /\ running["a"].call.slot = Some(11)
    /\ running["a"].pc = "idle"
    /\ running["a"].out.result = Raise("ValueError")
    /\ running["a"].out.wb = shipFile
    /\ books = {"b"}

\* The active-flag cell of slot s (i_Setup, column P, row 32 + s - 1) of f.
FlagCell(f, s) == f.setupP[ship_type_start_row + s - 1]

\* C12 as stated: every successful add_ship_type into slot s writes the name
\* into i_Setup cell M(32 + s - 1) and "Yes" into cell P of that row, saves
\* the workbook, seeds the placeholder revenue figures of slot s (100000 * s
\* and 120000 * s into the revenue cells of s that were empty), and returns
\* success = True with slot = s and row = 32 + s - 1.
C12_AddWritesSavesAndSeeds ==
    [][(/\ call'.op = "add_ship_type"
        /\ result'.kind = "dict"
        /\ result'.success = Some(TRUE)) =>
        LET s == Val(result'.slot)
            row == 32 + s - 1
        IN  /\ s \in Slots
            /\ call'.slot # None => call'.slot = Some(s)
            /\ result'.row = Some(row)
            /\ {<<"i_Setup", "M", row>>, <<"i_Setup", "P", row>>}
                   \subseteq effect'.writes
            /\ call'.name # EmptyStr =>
                   NameCell(shipFile', s) = Some(call'.name)
            /\ FlagCell(shipFile', s) = Some(Yes)
            /\ effect'.saved
            /\ \A tax \in BOOLEAN :
                   shipFile'.calcM[RevenueCellRow(s, tax)] =
                       IF shipFile.calcM[RevenueCellRow(s, tax)] = None
                       THEN Some(SeedValue(s, tax))
                       ELSE shipFile.calcM[RevenueCellRow(s, tax)]]_vars

\* C12: what the code does.  add_ship_type("VLCC", 2) has written the name
\* and "Yes" and saved, and both revenue cells of slot 2 are still empty.
C12_Witness ==
    /\ call.op = "add_ship_type"
    /\ call.name = VLCC
    /\ call.slot = Some(2)
    /\ result.success = Some(TRUE)
    /\ result.row = Some(33)
    /\ effect.saved
    /\ NameCell(shipFile, 2) = Some(VLCC)
    /\ FlagCell(shipFile, 2) = Some(Yes)
    /\ shipFile.calcM[45] = None
    /\ shipFile.calcM[62] = None

\* The last call was add_forecast_input_row and it returned a row number.
Appended(c, r) == c.op = "add_forecast_input_row" /\ r.kind = "int"

\* The rows of a 'Forecast input' sheet that hold a value written by a call.
NewRows(sheet) ==
    {r \in DOMAIN sheet : \E c \in 1..InputCols : sheet[r][c] = Some("new")}

\* C13 as stated: no call of add_forecast_input_row changes a row whose
\* column-B cell was already non-empty, whatever the sheet held, and a call
\* that follows another one writes the row directly below the row that one
\* wrote.
C13_InputSheetIsAppendOnly ==
    [][Appended(call', result') =>
        /\ \A r \in DOMAIN forecastFile.input :
               forecastFile.input[r][1] # None =>
                   forecastFile'.input[r] = forecastFile.input[r]
        /\ Appended(call, result) =>
               Val(result'.row) = Val(result.row) + 1]_vars

\* C13: what the code does on a sheet whose B8 is empty.  Two calls have each
\* written and saved a row, the last one a full record, and the sheet holds
\* one new row only, row 10, below rows 7 and 9.
C13_Witness ==
    /\ Appended(call, result)
    /\ call.data = FullDict
    /\ result.row = Some(10)
    /\ saves = 2
    /\ NewRows(forecastFile.input) = {10}
    /\ ColumnB(forecastFile.input) = {header_row, 7, 9, 10}

\* The call in record r of running is add_ship_type with no slot argument,
\* and its scan for the first empty slot has run.
ScannedForSlot(r) ==
    /\ r.call.op = "add_ship_type"
    /\ r.call.slot = None
    /\ r.pc \in {"save", "finally", "idle"}

\* C14: two calls of add_ship_type with no slot argument that opened the
\* same content of the file find the same first empty slot and get the same
\* outcome; once both have saved, the file is the workbook of one of the
\* two, and the two workbooks differ in that one slot only, so a name that
\* differs from the other caller's is in the file for one caller only, while
\* both return success for the slot.
C14_ConcurrentAddsLoseAnUpdate ==
    \A p, q \in Callers :
        (/\ p # q
         /\ ScannedForSlot(running[p])
         /\ ScannedForSlot(running[q])
         /\ running[p].version = running[q].version) =>
            /\ running[p].out.result.slot = running[q].out.result.slot
            /\ running[p].out.result.success = running[q].out.result.success
            /\ (/\ running[p].out.saved
                /\ running[q].out.saved
                /\ saves = running[p].version + 2) =>
                   LET s == Val(running[p].out.result.slot)
                   IN  /\ running[p].out.result.success = Some(TRUE)
                       /\ shipFile \in {running[p].out.wb, running[q].out.wb}
                       /\ \A t \in Slots \ {s} :
                              /\ NameCell(running[p].out.wb, t)
                                    = NameCell(running[q].out.wb, t)
                              /\ NameCell(shipFile, t)
                                    = NameCell(running[p].out.wb, t)
                       /\ NameCell(running[p].out.wb, s)
                              = Some(running[p].call.name)
                       /\ NameCell(running[q].out.wb, s)
                              = Some(running[q].call.name)

\* C14 witness: add_ship_type("VLCC") and add_ship_type("Bulk Carrier") have
\* both returned success for slot 2, both have saved, and slot 2 of the file
\* holds "Bulk Carrier"; "VLCC" is in the slot it was in before, slot 3, only.
C14_Witness ==
    /\ running["a"].pc = "idle"
    /\ running["b"].pc = "idle"
    /\ running["a"].call =
          [NoCall EXCEPT !.op = "add_ship_type", !.name = VLCC]
    /\ running["b"].call =
          [NoCall EXCEPT !.op = "add_ship_type", !.name = BulkCarrier]
    /\ running["a"].out.result.success = Some(TRUE)
    /\ running["a"].out.result.slot = Some(2)
    /\ running["b"].out.result.success = Some(TRUE)
    /\ running["b"].out.result.slot = Some(2)
    /\ running["a"].out.saved
    /\ running["b"].out.saved
    /\ saves = 2
    /\ books = {}
    /\ NameCell(shipFile, 2) = Some(BulkCarrier)
    /\ {t \in Slots : NameCell(shipFile, t) = Some(VLCC)} = {3}

\* Caller p is inside a model method.
Inside(r) == r.pc # "idle"

\* C15: a caller that is not inside a model method has no workbook open, so
\* after any sequence of calls none is open; control returns from a method,
\* with a value or an error, only by the step that closes the workbook the
\* call opened; and a call starts with no workbook of its caller open and
\* opens its own.
C15_EveryCallClosesItsWorkbook ==
    /\ [](\A p \in Callers : p \in books <=> Inside(running[p]))
    /\ []((\A p \in Callers : ~Inside(running[p])) => books = {})
    /\ [][\A p \in Callers :
            /\ (Inside(running[p]) /\ ~Inside(running'[p])) =>
                   (p \in books /\ p \notin books')
            /\ (~Inside(running[p]) /\ Inside(running'[p])) =>
                   (p \notin books /\ p \in books')]_vars

\* C15 witness: one call of read_total_revenue has left by a TypeError and
\* another by its early return for a name that is not found, and no workbook
\* is open.
C15_Witness ==
    /\ running["a"].call.op = "read_total_revenue"
    /\ running["a"].pc = "idle"
    /\ running["a"].out.result = Raise("TypeError")
    /\ running["b"].call.op = "read_total_revenue"
    /\ running["b"].pc = "idle"
    /\ running["b"].out.result.success = Some(FALSE)
    /\ started = 2
    /\ books = {}

\* The slots in the list that get_all_ship_types returns on file f.
ListedSlots(f) ==
    LET items == GetAllShipTypes(f).result.items
    IN  {items[i].slot : i \in 1..Len(items)}

\* Result r of add_ship_type with no slot argument agrees with the list of
\* get_all_ship_types on file f: it is the all-slots-full failure exactly when
\* the list has ten entries, and otherwise reports the lowest-numbered slot
\* of 1..10 that is absent from the list.
AgreesWithList(f, r) ==
    /\ r.kind = "dict"
    /\ r = AllSlotsFilled <=> Len(GetAllShipTypes(f).result.items) = 10
    /\ r # AllSlotsFilled =>
           /\ r.success = Some(TRUE)
           /\ Slots \ ListedSlots(f) # {}
           /\ r.slot = Some(Lowest(Slots \ ListedSlots(f)))

\* No name cell of file f holds text that is whitespace only.
NoBlankName(f) ==
    \A s \in Slots :
        \/ NameCell(f, s) \in {None, Some(EmptyStr)}
        \/ Strip(Val(NameCell(f, s))) # EmptyStr

\* C16 as stated: in every reachable workbook state, names that are empty or
\* whitespace-only included, add_ship_type with no slot argument targets the
\* lowest-numbered slot absent from the list of get_all_ship_types, and
\* returns the all-slots-full failure exactly when that list has ten entries.
C16_AddAgreesWithList ==
    [][(call'.op = "add_ship_type" /\ call'.slot = None) =>
        AgreesWithList(shipFile, result')]_vars

\* C16 amended: the same, in every reachable workbook state in which no name
\* cell holds whitespace-only text.
C16_AddAgreesWithListOfNonBlankNames ==
    [][(/\ call'.op = "add_ship_type"
        /\ call'.slot = None
        /\ NoBlankName(shipFile)) =>
        AgreesWithList(shipFile, result')]_vars

\* C16 witness: on a sheet with names in slots 1 and 3 only, add_ship_type
\* with no slot argument has written the empty name '' to slot 2, the lowest
\* slot absent from the list, and slot 2 is absent from the list still.
C16_Witness ==
    /\ call.op = "add_ship_type"
    /\ call.slot = None
    /\ call.name = EmptyStr
    /\ result.success = Some(TRUE)
    /\ result.slot = Some(2)
    /\ NoBlankName(shipFile)
    /\ ListedSlots(shipFile) = {1, 3}

\* C17: a successful add_ship_type into slot s leaves the name cell and the
\* active-flag cell of every other slot of 1..10 as they were, and
\* get_all_ship_types, read_sales_forecast and read_sales_forecast_range
\* assign no cell, do not save, and leave both files as they were.
C17_AddAndReadsKeepOtherCells ==
    [][/\ (call'.op = "add_ship_type" /\ result'.success = Some(TRUE)) =>
            \A t \in Slots \ {Val(result'.slot)} :
                /\ NameCell(shipFile', t) = NameCell(shipFile, t)
                /\ FlagCell(shipFile', t) = FlagCell(shipFile, t)
       /\ call'.op \in {"get_all_ship_types", "read_sales_forecast",
                        "read_sales_forecast_range"} =>
            /\ shipFile' = shipFile
            /\ forecastFile' = forecastFile
            /\ effect' = NoEffect]_vars

\* C17 witness: add_ship_type("VLCC", 5) has succeeded on a sheet whose slots
\* 4 and 6 hold names and whose slots 3 and 7 have no flag, and they are as
\* they were.
C17_Witness ==
    /\ call.op = "add_ship_type"
    /\ call.name = VLCC
    /\ call.slot = Some(5)
    /\ result.success = Some(TRUE)
    /\ NameCell(shipFile, 5) = Some(VLCC)
    /\ FlagCell(shipFile, 5) = Some(Yes)
    /\ NameCell(shipFile, 4) = Some(VLCC)
    /\ NameCell(shipFile, 6) = Some(VlccPadded)
    /\ NameCell(shipFile, 3) = Some(EmptyStr)
    /\ FlagCell(shipFile, 3) = None
    /\ FlagCell(shipFile, 7) = None
====
